---- MODULE Spec2Model ----
(***************************************************************************)
(* Model of the slappy dispatch core (src/slappy/__init__.py):             *)
(* Message, Listener and Dispatcher.  Texts are sequences of one-character *)
(* strings so that regular-expression matching and mention parsing are     *)
(* computed character by character.                                        *)
(***************************************************************************)
EXTENDS Integers, Sequences, FiniteSets, TLC

VARIABLES listeners, actions, commands, bot_id, alt_names,
          op, payload, called, sent, raised, returned,
          trace, threads, jobs

vars == <<listeners, actions, commands, bot_id, alt_names,
          op, payload, called, sent, raised, returned,
          trace, threads, jobs>>

tables == <<listeners, actions, commands, bot_id, alt_names>>

(***************************************************************************)
(* Bounds                                                                  *)
(***************************************************************************)
MaxListeners == 2
MaxActions == 2

\* registrations of all kinds together, where all three tables are in play
MaxRules == 2

\* threads that dispatch messages at the same time
NumThreads == 2

\* jobs given to the scheduler
MaxJobs == 3

(***************************************************************************)
(* Characters                                                              *)
(***************************************************************************)
LowerMap == ("H" :> "h") @@ ("B" :> "b") @@ ("O" :> "o") @@ ("I" :> "i")
            @@ ("Y" :> "y") @@ ("U" :> "u")

\* str.lower on one character, as re.IGNORECASE folds it
Lower(c) == IF c \in DOMAIN LowerMap THEN LowerMap[c] ELSE c

\* \w of the re module, over the characters the model uses
WordChars == {"h", "i", "o", "b", "y", "u", "H", "I", "O", "B", "Y", "U",
              "1", "2", "_"}

\* \s of the re module, over the characters the model uses
SpaceChars == {" ", "\n"}

(***************************************************************************)
(* Regular expressions.  A pattern is a literal prefix, optionally         *)
(* followed by a capture group of "any characters to the end of the text": *)
(* [lit |-> <<chars>>, cap |-> BOOLEAN]                                    *)
(***************************************************************************)
NoMatch == [matched |-> FALSE, groups |-> <<>>]

RECURSIVE LineEnd(_, _)
\* first index at or after i that holds a newline, Len(text) + 1 if none
LineEnd(text, i) ==
    IF i <= Len(text) /\ text[i] # "\n" THEN LineEnd(text, i + 1) ELSE i

\* what a trailing "any characters" group captures from index i on: the
\* dot of the re module matches no newline, so the group ends at the first
RestOfLine(text, i) == SubSeq(text, i, LineEnd(text, i) - 1)

StartsWith(text, lit, ignorecase) ==
    /\ Len(text) >= Len(lit)
    /\ \A i \in 1..Len(lit) :
          IF ignorecase THEN Lower(text[i]) = Lower(lit[i])
                        ELSE text[i] = lit[i]

\* re_match with re.IGNORECASE among the flags of every call
re_match_anycase(regex, text, ignorecase) ==
    IF StartsWith(text, regex.lit, TRUE)
    THEN [matched |-> TRUE,
          groups |-> IF regex.cap
                     THEN <<RestOfLine(text, Len(regex.lit) + 1)>>
                     ELSE <<>>]
    ELSE NoMatch

\* re.match(regex, text, flags): anchored at the start, prefix semantics
re_match(regex, text, ignorecase) ==
    IF StartsWith(text, regex.lit, ignorecase)
    THEN [matched |-> TRUE,
          groups |-> IF regex.cap
                     THEN <<RestOfLine(text, Len(regex.lit) + 1)>>
                     ELSE <<>>]
    ELSE NoMatch

(***************************************************************************)
(* Message                                                                 *)
(***************************************************************************)
\* is_text_message without the test of the payload type
is_text_message_any_type(body) == "text" \in DOMAIN body

\* Message.is_text_message
is_text_message(body) ==
    IF "type" \notin DOMAIN body \/ body["type"] # "message" THEN FALSE
    ELSE IF "text" \notin DOMAIN body THEN FALSE
    ELSE TRUE

\* Message.channel_id
channel_id(body) == body["channel"]

\* reply_args with the extra fields written over channel and thread_ts
reply_args_extra_last(body, text, kwargs) ==
    kwargs
    @@ (IF "thread_ts" \in DOMAIN body
           THEN "thread_ts" :> body["thread_ts"] ELSE <<>>)
    @@ ("channel" :> channel_id(body))
    @@ ("text" :> text)

\* reply_args without the thread of the source event
reply_args_unthreaded(body, text, kwargs) ==
    ("channel" :> channel_id(body)) @@ ("text" :> text) @@ kwargs

\* the keyword arguments Message.reply hands to sc.api_call
reply_args(body, text, kwargs) ==
    (IF "thread_ts" \in DOMAIN body
        THEN "thread_ts" :> body["thread_ts"] ELSE <<>>)
    @@ ("channel" :> channel_id(body))
    @@ ("text" :> text)
    @@ kwargs

\* responses of sc.api_call
OkResponse == [ok |-> TRUE]

NotFound == [error |-> "channel_not_found", ok |-> FALSE]

RateLimited == [error |-> "ratelimited", ok |-> FALSE]

Responses == {OkResponse, NotFound, RateLimited}

\* str(result) of a response, as Python prints the dict
py_str(response) ==
    CASE response.ok -> "{'ok': True}"
      [] ~response.ok /\ response.error = "channel_not_found" ->
            "{'ok': False, 'error': 'channel_not_found'}"
      [] ~response.ok /\ response.error = "ratelimited" ->
            "{'ok': False, 'error': 'ratelimited'}"

\* reply_to that raises on the ok response instead of the failed one
reply_to_inverted(body, text, kwargs, response) ==
    [sent   |-> <<[method |-> "chat.postMessage",
                   args |-> reply_args(body, text, kwargs),
                   ok |-> response.ok]>>,
     raised |-> IF ~response.ok THEN "none" ELSE py_str(response)]

\* Message.reply(text, **kwargs) when sc.api_call answers with response
reply_to(body, text, kwargs, response) ==
    [sent   |-> <<[method |-> "chat.postMessage",
                   args |-> reply_args(body, text, kwargs),
                   ok |-> response.ok]>>,
     raised |-> IF ~response.ok THEN py_str(response) ELSE "none"]

\* Message.reply(text, **kwargs); ok is the 'ok' field of the api response
reply(body, text, kwargs, ok) ==
    reply_to(body, text, kwargs, IF ok THEN OkResponse ELSE NotFound)

\* Message.react(emoji) when sc.api_call answers with response
react_to(body, emoji, response) ==
    [sent   |-> <<[method |-> "reactions.add",
                   args |-> ("name" :> emoji)
                            @@ ("channel" :> channel_id(body))
                            @@ ("timestamp" :> body["ts"]),
                   ok |-> response.ok]>>,
     raised |-> IF ~response.ok THEN response.error ELSE "none"]

\* msg.reply(**result): Python binds the keys of the map to reply's
\* parameters; a map without 'text' (or with 'self') is a TypeError
reply_map(body, result, ok) ==
    IF "text" \notin DOMAIN result \/ "self" \in DOMAIN result
    THEN [sent |-> <<>>, raised |-> "TypeError"]
    ELSE reply(body, result["text"],
               [k \in DOMAIN result \ {"text"} |-> result[k]], ok)

(***************************************************************************)
(* Listener                                                                *)
(***************************************************************************)
\* Listener.match
match(listener, text) == re_match(listener.regex, text, TRUE)

\* a handler result is a Python value tagged with its type; this is None
None == [type |-> "NoneType", value |-> 0]

\* Python truth value of a handler result that is neither str nor dict
Truthy(result) ==
    CASE result.type = "NoneType" -> FALSE
      [] result.type = "int" -> result.value # 0
      [] result.type = "bool" -> result.value
      [] result.type = "list" -> Len(result.value) > 0

\* normalize with the truth test ahead of the type tests
normalize_truth_first(body, result, ok) ==
    IF result.type \in {"str", "dict"} /\ Len(result.value) = 0
    THEN [sent |-> <<>>, raised |-> "none"]
    ELSE IF result.type = "str" THEN reply(body, result.value, <<>>, ok)
    ELSE IF result.type = "dict" THEN reply_map(body, result.value, ok)
    ELSE IF Truthy(result)
         THEN [sent |-> <<>>, raised |-> "Bad listener result"]
    ELSE [sent |-> <<>>, raised |-> "none"]

\* the branches of Listener.process on the handler's result
normalize(body, result, ok) ==
    IF result.type = "str" THEN reply(body, result.value, <<>>, ok)
    ELSE IF result.type = "dict" THEN reply_map(body, result.value, ok)
    ELSE IF Truthy(result)
         THEN [sent |-> <<>>, raised |-> "Bad listener result"]
    ELSE [sent |-> <<>>, raised |-> "none"]

\* Listener.process(msg, match); result is what the handler does when called
process(listener, body, m, result, ok) ==
    LET call == [f |-> listener.f, args |-> <<body>> \o m.groups,
                 result |-> result]
    IN  IF result.type = "raise"
        THEN [called |-> <<call>>, sent |-> <<>>, raised |-> "handler error"]
        ELSE [called |-> <<call>>] @@ normalize(body, result, ok)

(***************************************************************************)
(* Dispatcher                                                              *)
(***************************************************************************)
RECURSIVE WordRun(_, _)
\* length of the run of word characters of text that starts at index i
WordRun(text, i) ==
    IF i <= Len(text) /\ text[i] \in WordChars
    THEN 1 + WordRun(text, i + 1) ELSE 0

RECURSIVE SkipSpaces(_, _)
\* first index at or after i that holds no whitespace
SkipSpaces(text, i) ==
    IF i <= Len(text) /\ text[i] \in SpaceChars
    THEN SkipSpaces(text, i + 1) ELSE i

\* re.match of the explicit mention token: "<@", word characters, ">",
\* an optional comma, whitespace, then the rest of the text
mention_match(text) ==
    LET k == WordRun(text, 3)
        close == 3 + k
    IN  IF /\ Len(text) >= 2 /\ text[1] = "<" /\ text[2] = "@"
           /\ k >= 1 /\ close <= Len(text) /\ text[close] = ">"
        THEN LET comma == close + 1 <= Len(text) /\ text[close + 1] = ","
                 start == SkipSpaces(text, IF comma THEN close + 2
                                                    ELSE close + 1)
             IN  [matched |-> TRUE,
                  groups |-> <<SubSeq(text, 3, close - 1),
                               RestOfLine(text, start)>>]
        ELSE NoMatch

RECURSIVE alt_match(_, _, _)
\* re.match of the alternation of the escaped alt names, a comma,
\* whitespace and the rest; alternatives are tried in list order from i
alt_match(names, i, text) ==
    IF i > Len(names) THEN NoMatch
    ELSE LET n == Len(names[i])
         IN  IF /\ StartsWith(text, names[i], TRUE)
                /\ n + 1 <= Len(text) /\ text[n + 1] = ","
             THEN [matched |-> TRUE,
                   groups |-> <<RestOfLine(text, SkipSpaces(text, n + 2))>>]
             ELSE alt_match(names, i + 1, text)

\* Dispatcher.parse_mention
parse_mention(bid, names, text) ==
    LET mm == mention_match(text)
    IN  IF mm.matched /\ mm.groups[1] = bid
        THEN [mentioned |-> TRUE, text |-> mm.groups[2]]
        ELSE IF names # <<>> /\ alt_match(names, 1, text).matched
        THEN [mentioned |-> TRUE, text |-> alt_match(names, 1, text).groups[1]]
        ELSE [mentioned |-> FALSE, text |-> text]

\* the canned reply of Dispatcher.process_message (a Cyrillic literal in
\* the source, written here in Latin letters)
FallbackText == "Ne ponimayu."

\* direct = msg.body['channel_type'] == 'app_home'
is_direct(body) == body["channel_type"] = "app_home"

\* skipped without the test of direct
skipped_unless_mentioned(listener, mentioned, direct) ==
    listener.mention_only /\ ~mentioned

\* the 'continue' guard on mention-only listeners
skipped(listener, mentioned, direct) ==
    listener.mention_only /\ (~mentioned /\ ~direct)

\* wants_fallback without the test of direct
wants_fallback_mentioned(mentioned, direct) == mentioned

\* the guard of the canned reply after the loop
wants_fallback(mentioned, direct) == mentioned \/ direct

Nothing == [called |-> <<>>, sent |-> <<>>, raised |-> "none"]

\* the order in which an operation called handlers and the api: a handler
\* is called before Listener.process replies with its result
events(out) ==
    [i \in 1..Len(out.called) |-> "call"]
    \o (IF "sent" \in DOMAIN out THEN [i \in 1..Len(out.sent) |-> "send"]
                                 ELSE <<>>)

RECURSIVE scan_fan_out(_, _, _, _, _, _, _, _)
\* scan without the return after listener.process
scan_fan_out(ls, i, body, text, mentioned, direct, result, ok) ==
    IF i > Len(ls) THEN Nothing
    ELSE IF skipped(ls[i], mentioned, direct)
         THEN scan_fan_out(ls, i + 1, body, text, mentioned, direct, result, ok)
    ELSE IF ~match(ls[i], text).matched
         THEN scan_fan_out(ls, i + 1, body, text, mentioned, direct, result, ok)
    ELSE LET first == process(ls[i], body, match(ls[i], text), result, ok)
             rest == scan_fan_out(ls, i + 1, body, text, mentioned, direct,
                                  result, ok)
         IN  IF first.raised # "none" THEN first
             ELSE [called |-> first.called \o rest.called,
                   sent |-> first.sent \o rest.sent,
                   raised |-> rest.raised]

RECURSIVE scan(_, _, _, _, _, _, _, _)
\* the for loop of Dispatcher.process_message from listener i on, and the
\* code after the loop; result is what the handler does if one is called,
\* ok the api response if one is asked
scan(ls, i, body, text, mentioned, direct, result, ok) ==
    IF i > Len(ls)
    THEN IF wants_fallback(mentioned, direct)
         THEN [called |-> <<>>] @@ reply(body, FallbackText, <<>>, ok)
         ELSE Nothing
    ELSE IF skipped(ls[i], mentioned, direct)
         THEN scan(ls, i + 1, body, text, mentioned, direct, result, ok)
    ELSE IF ~match(ls[i], text).matched
         THEN scan(ls, i + 1, body, text, mentioned, direct, result, ok)
    ELSE process(ls[i], body, match(ls[i], text), result, ok)

\* Dispatcher.process_message after its guard, given the parsed mention
route(ls, body, pm, result, ok) ==
    scan(ls, 1, body, pm.text, pm.mentioned, is_direct(body), result, ok)

RECURSIVE act_last(_, _, _, _)
\* act with the latest-registered matching action winning
act_last(as, i, action_payload, result) ==
    IF i > Len(as)
    THEN [called |-> <<>>, returned |-> None, raised |-> "unknown action"]
    ELSE LET m == re_match(as[i].regex, action_payload["callback_id"], FALSE)
             later == act_last(as, i + 1, action_payload, result)
         IN  IF ~m.matched \/ later.called # <<>> THEN later
             ELSE [called |-> <<[f |-> as[i].f,
                                 args |-> <<action_payload>> \o m.groups,
                                 result |-> result]>>,
                   returned |-> IF result.type = "raise" THEN None
                                ELSE result,
                   raised |-> IF result.type = "raise" THEN "handler error"
                              ELSE "none"]

RECURSIVE act(_, _, _, _)
\* the for loop of Dispatcher.process_action from action i on, and the
\* raise after the loop; result is what the handler does if it is called
act(as, i, action_payload, result) ==
    IF i > Len(as)
    THEN [called |-> <<>>, returned |-> None, raised |-> "unknown action"]
    ELSE LET m == re_match(as[i].regex, action_payload["callback_id"], FALSE)
         IN  IF ~m.matched THEN act(as, i + 1, action_payload, result)
             ELSE [called |-> <<[f |-> as[i].f,
                                 args |-> <<action_payload>> \o m.groups,
                                 result |-> result]>>,
                   returned |-> IF result.type = "raise" THEN None
                                ELSE result,
                   raised |-> IF result.type = "raise" THEN "handler error"
                              ELSE "none"]

\* command not in self.commands
unknown_command(cs, command) == command \notin DOMAIN cs

\* run_command looking the command up by a registered prefix of its name
run_command_prefix(cs, command_payload, result) ==
    LET command == command_payload["command"]
        known == {n \in DOMAIN cs : StartsWith(command, n, FALSE)}
    IN  IF known = {}
        THEN [called |-> <<>>, returned |-> None,
              raised |-> "Command not found"]
        ELSE [called |-> <<[f |-> cs[CHOOSE n \in known : TRUE].f,
                            args |-> <<command_payload>>,
                            result |-> result]>>,
              returned |-> IF result.type = "raise" THEN None ELSE result,
              raised |-> IF result.type = "raise" THEN "handler error"
                         ELSE "none"]

\* Dispatcher.process_command as a function of its inputs
run_command(cs, command_payload, result) ==
    LET command == command_payload["command"]
    IN  IF unknown_command(cs, command)
        THEN [called |-> <<>>, returned |-> None,
              raised |-> "Command not found"]
        ELSE [called |-> <<[f |-> cs[command].f,
                            args |-> <<command_payload>>,
                            result |-> result]>>,
              returned |-> IF result.type = "raise" THEN None ELSE result,
              raised |-> IF result.type = "raise" THEN "handler error"
                         ELSE "none"]

\* duplicate_command that never finds a duplicate
duplicate_command_never(cs, name) == FALSE

\* name in self.commands, the guard of Dispatcher.register_command
duplicate_command(cs, name) == name \in DOMAIN cs

(***************************************************************************)
(* Bot                                                                     *)
(***************************************************************************)
\* is_self_authored that lets every event through
is_self_authored_never(body) == FALSE

\* 'bot_id' in msg, the guard of Bot.process_message
is_self_authored(body) == "bot_id" \in DOMAIN body

\* the text of the error reply: a fixed frame around str(e) (the source
\* has Cyrillic words and a code fence of three backquotes on either side,
\* written here in Latin letters and as three quotes)
ErrorText(e) == <<"Chto-to poshlo ne tak: '''", e, "'''">>

\* recover with the reply ahead of the cleanup hook
recover_reply_first(body, e, ok) ==
    [trace |-> IF ok THEN <<"send", "cleanup">> ELSE <<"send">>]
    @@ reply(body, ErrorText(e), <<>>, ok)

\* the except branch of Bot.process_message: the cleanup hook, then the
\* error reply, whose own failure leaves Bot.process_message as an error
recover(body, e, ok) ==
    [trace |-> <<"cleanup", "send">>] @@ reply(body, ErrorText(e), <<>>, ok)

\* Bot.process_message around the outcome out of the dispatcher; ok is the
\* api response to the error reply if one is sent
guard_message(body, out, ok) ==
    IF out.raised = "none"
    THEN [trace |-> events(out)] @@ out
    ELSE LET r == recover(body, out.raised, ok)
         IN  [called |-> out.called,
              sent |-> out.sent \o r.sent,
              raised |-> r.raised,
              trace |-> events(out) \o r.trace]

\* job with the cleanup hook in a finally clause
job_finally(f, result) ==
    [called |-> <<[f |-> f, args |-> <<>>, result |-> result]>>,
     raised |-> IF result.type = "raise" THEN result.value ELSE "none",
     trace  |-> <<"call", "cleanup">>]

\* the wrapper job of Bot.schedule around f; result is what f does: the
\* bare except runs the cleanup hook on whatever f raises, and raises it again
job(f, result) ==
    [called |-> <<[f |-> f, args |-> <<>>, result |-> result]>>,
     raised |-> IF result.type = "raise" THEN result.value ELSE "none",
     trace  |-> IF result.type = "raise" THEN <<"call", "cleanup">>
                ELSE <<"call">>]

\* self.verification_token
VerificationToken == "t0"

\* the act endpoint of Bot.run around the outcome out of
\* Dispatcher.process_action: cleanup hook and re-raise, or jsonify(result)
act_endpoint(out) ==
    IF out.raised # "none"
    THEN [called |-> out.called, raised |-> out.raised, returned |-> None,
          trace |-> events(out) \o <<"cleanup">>]
    ELSE [called |-> out.called, raised |-> "none",
          returned |-> [type |-> "json", value |-> out.returned],
          trace |-> events(out)]

\* command_endpoint that re-raises after the cleanup hook
command_endpoint_reraise(out) ==
    IF out.raised # "none"
    THEN [called |-> out.called, raised |-> out.raised, returned |-> None,
          trace |-> events(out) \o <<"cleanup">>]
    ELSE [called |-> out.called, raised |-> "none",
          returned |-> IF out.returned.type = "str" THEN out.returned
                       ELSE [type |-> "json", value |-> out.returned],
          trace |-> events(out)]

\* the command endpoint of Bot.run around the outcome out of
\* Dispatcher.process_command: cleanup hook and the error text as the
\* response, or the handler's string, or jsonify(result)
command_endpoint(out) ==
    IF out.raised # "none"
    THEN [called |-> out.called, raised |-> "none",
          returned |-> [type |-> "str", value |-> ErrorText(out.raised)],
          trace |-> events(out) \o <<"cleanup">>]
    ELSE [called |-> out.called, raised |-> "none",
          returned |-> IF out.returned.type = "str" THEN out.returned
                       ELSE [type |-> "json", value |-> out.returned],
          trace |-> events(out)]

\* the raise of either endpoint on a payload with another token, ahead of
\* the try block
refused(message) ==
    [called |-> <<>>, raised |-> message, returned |-> None, trace |-> <<>>]

(***************************************************************************)
(* Inputs                                                                  *)
(***************************************************************************)
BotId == <<"U", "1">>

\* alt_names = ["bob"]
AltNames == << <<"b", "o", "b">> >>

\* listener patterns "hi" and "h" followed by a capture group
ListenerPatterns == {[lit |-> <<"h", "i">>, cap |-> FALSE],
                     [lit |-> <<"h">>, cap |-> TRUE]}

\* "", "<@U1> ", "Bob, "
Prefixes == {<<>>,
             <<"<", "@", "U", "1", ">", " ">>,
             <<"B", "o", "b", ",", " ">>}

\* "Hi yo", "ho"
Phrases == {<<"H", "i", " ", "y", "o">>, <<"h", "o">>}

Texts == {p \o t : p \in Prefixes, t \in Phrases}

\* where a message comes from: a channel, a thread of a channel, the app home
Origins == {("channel" :> "C1") @@ ("channel_type" :> "channel"),
            ("channel" :> "C1") @@ ("channel_type" :> "channel")
                @@ ("thread_ts" :> "5.0"),
            ("channel" :> "D1") @@ ("channel_type" :> "app_home")}

TextBodies == {("type" :> "message") @@ ("text" :> t) @@ ("ts" :> "7.0") @@ o :
                  t \in Texts, o \in Origins}

\* payloads that are not text messages: no text, another type, no type
NonTextBodies ==
    {("type" :> "message") @@ ("subtype" :> "channel_join")
        @@ ("channel" :> "C1") @@ ("channel_type" :> "channel"),
     ("type" :> "app_mention")
        @@ ("text" :> <<"<", "@", "U", "1", ">", " ", "h", "o">>)
        @@ ("channel" :> "D1") @@ ("channel_type" :> "app_home"),
     ("text" :> <<"h", "o">>) @@ ("channel" :> "C1")
        @@ ("channel_type" :> "channel")}

Bodies == TextBodies \cup NonTextBodies

\* what a handler may do when called: return a value or raise
HandlerResults ==
    {None,
     [type |-> "str", value |-> "ok"],
     [type |-> "str", value |-> ""],
     [type |-> "dict", value |-> ("text" :> "x") @@ ("icon" :> "y")],
     [type |-> "dict", value |-> ("text" :> "x") @@ ("channel" :> "C9")
                                   @@ ("thread_ts" :> "9.9")],
     [type |-> "dict", value |-> ("icon" :> "y")],
     [type |-> "int", value |-> 0],
     [type |-> "int", value |-> 7],
     [type |-> "list", value |-> <<>>],
     [type |-> "raise", value |-> "boom"]}

\* the events Bot.process_message is given: text messages "Hi yo" and
\* "<@U1> ho" from every origin, self-authored copies of "Hi yo", and a
\* payload without text
BotTexts == {<<"H", "i", " ", "y", "o">>,
             <<"<", "@", "U", "1", ">", " ", "h", "o">>}

BotBodies ==
    {b \in TextBodies : b["text"] \in BotTexts}
    \cup {("bot_id" :> "B0") @@ b :
             b \in {x \in TextBodies : x["text"] = <<"H", "i", " ", "y", "o">>}}
    \cup {("type" :> "message") @@ ("subtype" :> "channel_join")
             @@ ("channel" :> "C1") @@ ("channel_type" :> "channel")}

\* what the handlers of those events may do
BotResults ==
    {None,
     [type |-> "str", value |-> "ok"],
     [type |-> "dict", value |-> ("text" :> "x") @@ ("channel" :> "C9")
                                   @@ ("thread_ts" :> "9.9")],
     [type |-> "dict", value |-> ("icon" :> "y")],
     [type |-> "int", value |-> 7],
     [type |-> "raise", value |-> "boom"]}

\* action patterns "ok", "Ok" and "o" followed by a capture group
ActionPatterns == {[lit |-> <<"o", "k">>, cap |-> FALSE],
                   [lit |-> <<"O", "k">>, cap |-> FALSE],
                   [lit |-> <<"o">>, cap |-> TRUE]}

\* "ok", "Ok", "okay", "no"
CallbackIds == {<<"o", "k">>, <<"O", "k">>, <<"o", "k", "a", "y">>,
                <<"n", "o">>}

ActionPayloads == {("callback_id" :> c) @@ ("token" :> "t0") :
                      c \in CallbackIds}

\* "/a", "/ab", "/b"
CommandNames == {<<"/", "a">>, <<"/", "a", "b">>, <<"/", "b">>}

CommandHandlers == {"f", "g"}

CommandPayloads == {("command" :> c) @@ ("token" :> "t0") :
                       c \in CommandNames}

\* the messages and handler results of the dispatcher with all three tables
DispatchBodies ==
    {b \in Bodies : "text" \in DOMAIN b => b["text"] \in BotTexts}

DispatchResults ==
    {None,
     [type |-> "str", value |-> "ok"],
     [type |-> "raise", value |-> "boom"]}

\* listener lists registered before the threads start: "hi" on mention only
\* ahead of "h" with a group; "h" with a group on mention only; none
ThreadListeners ==
    {<<[regex |-> [lit |-> <<"h", "i">>, cap |-> FALSE], f |-> 1,
        mention_only |-> TRUE],
       [regex |-> [lit |-> <<"h">>, cap |-> TRUE], f |-> 2,
        mention_only |-> FALSE]>>,
     <<[regex |-> [lit |-> <<"h">>, cap |-> TRUE], f |-> 1,
        mention_only |-> TRUE]>>,
     <<>>}

\* the messages the threads are given: "Hi yo" from a channel and from the
\* app home, "<@U1> Hi yo" and "Bob, ho" from a channel, and a payload
\* without text
ThreadBodies ==
    {b \in TextBodies :
        \/ /\ b["text"] = <<"H", "i", " ", "y", "o">>
           /\ "thread_ts" \notin DOMAIN b
        \/ /\ b["text"] \in {<<"<", "@", "U", "1", ">", " ",
                                "H", "i", " ", "y", "o">>,
                              <<"B", "o", "b", ",", " ", "h", "o">>}
           /\ b["channel_type"] = "channel"
           /\ "thread_ts" \notin DOMAIN b}
    \cup {("type" :> "message") @@ ("subtype" :> "channel_join")
             @@ ("channel" :> "C1") @@ ("channel_type" :> "channel")}

\* what the handlers of those messages may do
ThreadResults ==
    {None,
     [type |-> "str", value |-> "ok"],
     [type |-> "raise", value |-> "boom"]}

\* triggers of scheduled jobs
Triggers == {"cron", "interval", "date"}

\* what a scheduled function may do: return (its value is dropped) or raise
\* an Exception or another BaseException
JobResults ==
    {None,
     [type |-> "str", value |-> "ok"],
     [type |-> "raise", value |-> "boom"],
     [type |-> "raise", value |-> "SystemExit"]}

\* alias lists a Dispatcher is constructed with: none, ["bob"], ["bo", "bob"]
AltNameLists == {<<>>,
                 << <<"b", "o", "b">> >>,
                 << <<"b", "o">>, <<"b", "o", "b">> >>}

\* starts of the texts given to parse_mention: "", "<@U1> ", "<@U1>, ",
\* "<@U1>", "<@U1>" and a newline, "<@U2> ", "<@U1", "Bob, ", "bob,",
\* "BO, ", "bob "
ParsePrefixes == {<<>>,
                  <<"<", "@", "U", "1", ">", " ">>,
                  <<"<", "@", "U", "1", ">", ",", " ">>,
                  <<"<", "@", "U", "1", ">">>,
                  <<"<", "@", "U", "1", ">", "\n">>,
                  <<"<", "@", "U", "2", ">", " ">>,
                  <<"<", "@", "U", "1">>,
                  <<"B", "o", "b", ",", " ">>,
                  <<"b", "o", "b", ",">>,
                  <<"B", "O", ",", " ">>,
                  <<"b", "o", "b", " ">>}

\* what follows: "", "hi", "hi" newline "yo", "bob, yo"
ParsePhrases == {<<>>,
                 <<"h", "i">>,
                 <<"h", "i", "\n", "y", "o">>,
                 <<"b", "o", "b", ",", " ", "y", "o">>}

ParseTexts == {p \o t : p \in ParsePrefixes, t \in ParsePhrases}

\* what Message.reply and Message.react are called with
ReplyTexts == {"ok", ""}

ReplyKwargs == {<<>>, ("icon" :> "y")}

Emojis == {"eyes", "+1"}

\* tokens of the payloads the endpoints are given
Tokens == {VerificationToken, "t1"}

EndpointActionPayloads == {("callback_id" :> c) @@ ("token" :> t) :
                              c \in CallbackIds, t \in Tokens}

EndpointCommandPayloads == {("command" :> c) @@ ("token" :> t) :
                               c \in CommandNames, t \in Tokens}

\* what an action or command handler may do: return a value or raise
EndpointResults ==
    {None,
     [type |-> "str", value |-> "done"],
     [type |-> "raise", value |-> "boom"]}

(***************************************************************************)
(* State machine                                                           *)
(***************************************************************************)
\* Dispatcher.__init__
Init ==
    /\ listeners = <<>>
    /\ actions = <<>>
    /\ commands = <<>>
    /\ bot_id = BotId
    /\ alt_names = AltNames
    /\ op = "init"
    /\ payload = <<>>
    /\ called = <<>>
    /\ sent = <<>>
    /\ raised = "none"
    /\ returned = None
    /\ trace = <<>>
    /\ threads = <<>>
    /\ jobs = <<>>

\* Dispatcher.register_listener(Listener(regex, f, mention_only)); every
\* registration brings its own handler function, named by its number
register_listener ==
    \E regex \in ListenerPatterns, mention_only \in BOOLEAN :
        LET listener == [regex |-> regex, f |-> Len(listeners) + 1,
                         mention_only |-> mention_only]
        IN  /\ Len(listeners) < MaxListeners
            /\ listeners' = Append(listeners, listener)
            /\ op' = "register_listener"
            /\ payload' = listener
            /\ called' = <<>>
            /\ sent' = <<>>
            /\ raised' = "none"
            /\ returned' = None
            /\ trace' = <<>>
            /\ UNCHANGED <<actions, commands, bot_id, alt_names, threads, jobs>>

\* finish_message of a dispatcher whose listeners fire once: the fired
\* listener is taken off the list
finish_message_once(body, out) ==
    /\ op' = "process_message"
    /\ payload' = body
    /\ called' = out.called
    /\ sent' = out.sent
    /\ raised' = out.raised
    /\ returned' = None
    /\ trace' = events(out)
    /\ listeners' = IF out.called = <<>> THEN listeners
                    ELSE SelectSeq(listeners,
                                   LAMBDA l : l.f # out.called[1].f)
    /\ UNCHANGED <<actions, commands, bot_id, alt_names, threads, jobs>>

\* the outcome of one call of Dispatcher.process_message
finish_message(body, out) ==
    /\ op' = "process_message"
    /\ payload' = body
    /\ called' = out.called
    /\ sent' = out.sent
    /\ raised' = out.raised
    /\ returned' = None
    /\ trace' = events(out)
    /\ UNCHANGED <<tables, threads, jobs>>

\* Dispatcher.process_message(msg) for a message of bodies and handlers
\* that behave as results say; a handler does something only when it is
\* called, and the api answers only when Message.reply asks it
dispatch_from(bodies, results) ==
    \E body \in bodies :
      IF ~is_text_message(body) THEN finish_message(body, Nothing)
      ELSE
        \E pm \in {parse_mention(bot_id, alt_names, body["text"])} :
          \E result \in
               (IF route(listeners, body, pm, None, TRUE).called # <<>>
                THEN results ELSE {None}) :
            \E ok \in
                 (IF route(listeners, body, pm, result, TRUE).sent # <<>>
                  THEN BOOLEAN ELSE {TRUE}) :
              \E out \in {route(listeners, body, pm, result, ok)} :
                finish_message(body, out)

\* Dispatcher.process_message(msg)
process_message == dispatch_from(Bodies, HandlerResults)

Next == register_listener \/ process_message

Spec == Init /\ [][Next]_vars

\* Dispatcher.register_action(regex, f); every registration brings its own
\* handler function, named by its number
register_action ==
    \E regex \in ActionPatterns :
        LET action == [regex |-> regex, f |-> Len(actions) + 1]
        IN  /\ Len(actions) < MaxActions
            /\ actions' = Append(actions, action)
            /\ op' = "register_action"
            /\ payload' = action
            /\ called' = <<>>
            /\ sent' = <<>>
            /\ raised' = "none"
            /\ returned' = None
            /\ trace' = <<>>
            /\ UNCHANGED <<listeners, commands, bot_id, alt_names, threads, jobs>>

\* Dispatcher.process_action(payload)
process_action ==
    \E action_payload \in ActionPayloads :
      \E result \in
           (IF act(actions, 1, action_payload, None).called # <<>>
            THEN EndpointResults ELSE {None}) :
        \E out \in {act(actions, 1, action_payload, result)} :
          /\ op' = "process_action"
          /\ payload' = action_payload
          /\ called' = out.called
          /\ sent' = <<>>
          /\ raised' = out.raised
          /\ returned' = out.returned
          /\ trace' = events(out)
          /\ UNCHANGED <<tables, threads, jobs>>

NextAction == register_action \/ process_action

SpecAction == Init /\ [][NextAction]_vars

\* Dispatcher.register_command(name, f)
register_command ==
    \E name \in CommandNames, f \in CommandHandlers :
        /\ op' = "register_command"
        /\ payload' = [name |-> name, f |-> f]
        /\ called' = <<>>
        /\ sent' = <<>>
        /\ returned' = None
        /\ trace' = <<>>
        /\ UNCHANGED <<threads, jobs>>
        /\ IF duplicate_command(commands, name)
           THEN /\ raised' = "Duplicate command"
                /\ UNCHANGED tables
           ELSE /\ raised' = "none"
                /\ commands' = (name :> [f |-> f]) @@ commands
                /\ UNCHANGED <<listeners, actions, bot_id, alt_names>>

\* Dispatcher.process_command(payload)
process_command ==
    \E command_payload \in CommandPayloads :
      \E result \in
           (IF run_command(commands, command_payload, None).called # <<>>
            THEN EndpointResults ELSE {None}) :
        \E out \in {run_command(commands, command_payload, result)} :
          /\ op' = "process_command"
          /\ payload' = command_payload
          /\ called' = out.called
          /\ sent' = <<>>
          /\ raised' = out.raised
          /\ returned' = out.returned
          /\ trace' = events(out)
          /\ UNCHANGED <<tables, threads, jobs>>

NextCommand == register_command \/ process_command

SpecCommand == Init /\ [][NextCommand]_vars

\* the number of rules registered in the three tables
Registered == Len(listeners) + Len(actions) + Cardinality(DOMAIN commands)

\* a dispatcher with listeners, actions and commands, given messages "Hi yo"
\* and "<@U1> ho" from every origin and a payload without text
NextDispatcher ==
    \/ Registered < MaxRules /\ register_listener
    \/ Registered < MaxRules /\ register_action
    \/ Registered < MaxRules /\ register_command
    \/ dispatch_from(DispatchBodies, DispatchResults)
    \/ process_action
    \/ process_command

SpecDispatcher == Init /\ [][NextDispatcher]_vars

\* Message.reply(text, **kwargs); the one call of sc.api_call and its
\* response are recorded in called
Message_reply ==
    \E body \in TextBodies, text \in ReplyTexts, kwargs \in ReplyKwargs,
       response \in Responses :
      LET out == reply_to(body, text, kwargs, response) IN
        /\ op' = "Message.reply"
        /\ payload' = body
        /\ called' = <<[f |-> "sc.api_call", args |-> <<out.sent[1].method>>,
                        result |-> response]>>
        /\ sent' = out.sent
        /\ raised' = out.raised
        /\ returned' = None
        /\ trace' = <<"send">>
        /\ UNCHANGED <<tables, threads, jobs>>

\* Message.react(emoji); the one call of sc.api_call and its response are
\* recorded in called
Message_react ==
    \E body \in TextBodies, emoji \in Emojis, response \in Responses :
      LET out == react_to(body, emoji, response) IN
        /\ op' = "Message.react"
        /\ payload' = body
        /\ called' = <<[f |-> "sc.api_call", args |-> <<out.sent[1].method>>,
                        result |-> response]>>
        /\ sent' = out.sent
        /\ raised' = out.raised
        /\ returned' = None
        /\ trace' = <<"send">>
        /\ UNCHANGED <<tables, threads, jobs>>

NextMessage ==
    \/ Message_reply
    \/ Message_react

SpecMessage == Init /\ [][NextMessage]_vars

\* the frame that holds the local variables of thread t
slot_shared(t) == 1

\* the frame that holds the local variables of thread t: every call of
\* process_message has its own
slot(t) == t

\* a thread before it is given a message; text, mentioned, direct and i are
\* the local variables of Dispatcher.process_message
IdleThread ==
    [pc |-> "idle", body |-> <<>>, text |-> <<>>, mentioned |-> FALSE,
     direct |-> FALSE, i |-> 0, result |-> None, called |-> <<>>,
     sent |-> <<>>, raised |-> "none", trace |-> <<>>]

\* registration finished, every thread waiting for a message
InitThreads ==
    /\ listeners \in ThreadListeners
    /\ actions = <<>>
    /\ commands = <<>>
    /\ bot_id = BotId
    /\ alt_names = AltNames
    /\ op = "init"
    /\ payload = <<>>
    /\ called = <<>>
    /\ sent = <<>>
    /\ raised = "none"
    /\ returned = None
    /\ trace = <<>>
    /\ threads = [t \in 1..NumThreads |-> IdleThread]
    /\ jobs = <<>>

\* thread steps change nothing but the threads
thread_frame ==
    UNCHANGED <<tables, op, payload, called, sent, raised, returned, trace,
                jobs>>

\* Bot.process_message is called with an event on thread t
T_receive(t) ==
    /\ threads[t].pc = "idle"
    /\ \E body \in ThreadBodies :
          threads' = [threads EXCEPT
                        ![t].body = body,
                        ![t].pc = IF is_self_authored(body) THEN "done"
                                  ELSE "parse"]
    /\ thread_frame

\* the guard of Dispatcher.process_message and
\* (mentioned, text) = self.parse_mention(text)
T_parse(t) ==
    /\ threads[t].pc = "parse"
    /\ LET body == threads[t].body IN
         IF ~is_text_message(body)
         THEN threads' = [threads EXCEPT ![t].pc = "done"]
         ELSE LET pm == parse_mention(bot_id, alt_names, body["text"]) IN
                threads' = [[threads EXCEPT
                               ![slot(t)].mentioned = pm.mentioned,
                               ![slot(t)].text = pm.text]
                            EXCEPT ![t].pc = "direct"]
    /\ thread_frame

\* direct = msg.body['channel_type'] == 'app_home', and the loop starts
T_direct(t) ==
    /\ threads[t].pc = "direct"
    /\ threads' = [[threads EXCEPT
                       ![slot(t)].direct = is_direct(threads[t].body),
                       ![slot(t)].i = 1]
                    EXCEPT ![t].pc = "scan"]
    /\ thread_frame

\* one turn of the for loop: the loop ends, the listener is passed over, or
\* it fires and Listener.process deals with the handler's result
T_scan(t) ==
    /\ threads[t].pc = "scan"
    /\ LET local == threads[slot(t)]
           body == threads[t].body
       IN  IF local.i > Len(listeners)
           THEN threads' = [threads EXCEPT ![t].pc = "fallback"]
           ELSE IF \/ skipped(listeners[local.i], local.mentioned,
                              local.direct)
                   \/ ~match(listeners[local.i], local.text).matched
           THEN threads' = [threads EXCEPT ![slot(t)].i = local.i + 1]
           ELSE \E result \in ThreadResults :
                  LET out == process(listeners[local.i], body,
                                     match(listeners[local.i], local.text),
                                     result, TRUE)
                  IN  threads' = [threads EXCEPT
                                    ![t].result = result,
                                    ![t].called = out.called,
                                    ![t].sent = out.sent,
                                    ![t].raised = out.raised,
                                    ![t].trace = events(out),
                                    ![t].pc = IF out.raised # "none"
                                              THEN "recover" ELSE "done"]
    /\ thread_frame

\* the code after the loop: the canned reply when mentioned or direct
T_fallback(t) ==
    /\ threads[t].pc = "fallback"
    /\ LET local == threads[slot(t)]
           out == reply(threads[t].body, FallbackText, <<>>, TRUE)
       IN  IF wants_fallback(local.mentioned, local.direct)
           THEN threads' = [threads EXCEPT ![t].sent = out.sent,
                                           ![t].trace = <<"send">>,
                                           ![t].pc = "done"]
           ELSE threads' = [threads EXCEPT ![t].pc = "done"]
    /\ thread_frame

\* the except branch of Bot.process_message on thread t
T_recover(t) ==
    /\ threads[t].pc = "recover"
    /\ LET r == recover(threads[t].body, threads[t].raised, TRUE) IN
         threads' = [threads EXCEPT
                       ![t].sent = threads[t].sent \o r.sent,
                       ![t].raised = r.raised,
                       ![t].trace = threads[t].trace \o r.trace,
                       ![t].pc = "done"]
    /\ thread_frame

\* the threads run with no lock: any thread may take the next step
NextThreads ==
    \E t \in 1..NumThreads :
        \/ T_receive(t)
        \/ T_parse(t)
        \/ T_direct(t)
        \/ T_scan(t)
        \/ T_fallback(t)
        \/ T_recover(t)

SpecThreads == InitThreads /\ [][NextThreads]_vars

\* Bot.schedule(trigger)(f): the wrapper of f is added to the scheduler; every
\* call brings its own function, named by its number
schedule ==
    \E trigger \in Triggers :
        LET added == [trigger |-> trigger, f |-> Len(jobs) + 1]
        IN  /\ Len(jobs) < MaxJobs
            /\ jobs' = Append(jobs, added)
            /\ op' = "schedule"
            /\ payload' = added
            /\ called' = <<>>
            /\ sent' = <<>>
            /\ raised' = "none"
            /\ returned' = None
            /\ trace' = <<>>
            /\ UNCHANGED <<tables, threads>>

\* the scheduler runs one of its jobs
run_job ==
    \E n \in 1..Len(jobs), result \in JobResults :
        LET out == job(jobs[n].f, result)
        IN  /\ op' = "job"
            /\ payload' = jobs[n]
            /\ called' = out.called
            /\ sent' = <<>>
            /\ raised' = out.raised
            /\ returned' = None
            /\ trace' = out.trace
            /\ UNCHANGED <<tables, threads, jobs>>

NextSchedule == schedule \/ run_job

SpecSchedule == Init /\ [][NextSchedule]_vars

\* a Dispatcher constructed with one of the alias lists
InitParse ==
    /\ listeners = <<>>
    /\ actions = <<>>
    /\ commands = <<>>
    /\ bot_id = BotId
    /\ alt_names \in AltNameLists
    /\ op = "init"
    /\ payload = <<>>
    /\ called = <<>>
    /\ sent = <<>>
    /\ raised = "none"
    /\ returned = None
    /\ trace = <<>>
    /\ threads = <<>>
    /\ jobs = <<>>

\* Dispatcher.parse_mention(text); the pair it returns is recorded in returned
Dispatcher_parse_mention ==
    \E text \in ParseTexts :
      LET pm == parse_mention(bot_id, alt_names, text) IN
        /\ op' = "Dispatcher.parse_mention"
        /\ payload' = text
        /\ called' = <<>>
        /\ sent' = <<>>
        /\ raised' = "none"
        /\ returned' = [mentioned |-> pm.mentioned, text |-> pm.text]
        /\ trace' = <<>>
        /\ UNCHANGED <<tables, threads, jobs>>

NextParse == Dispatcher_parse_mention

SpecParse == InitParse /\ [][NextParse]_vars

\* the outcome of one request to an endpoint of Bot.run
finish_endpoint(name, request, out) ==
    /\ op' = name
    /\ payload' = request
    /\ called' = out.called
    /\ sent' = <<>>
    /\ raised' = out.raised
    /\ returned' = out.returned
    /\ trace' = out.trace
    /\ UNCHANGED <<tables, threads, jobs>>

\* act() of Bot.run, the endpoint /slack/action
Bot_act ==
    \E action_payload \in EndpointActionPayloads :
      IF action_payload["token"] # VerificationToken
      THEN finish_endpoint("act", action_payload,
                           refused("Verification token doesn't match"))
      ELSE
        \E result \in
             (IF act(actions, 1, action_payload, None).called # <<>>
              THEN EndpointResults ELSE {None}) :
          finish_endpoint("act", action_payload,
              act_endpoint(act(actions, 1, action_payload, result)))

\* command() of Bot.run, the endpoint /slack/command
Bot_command ==
    \E command_payload \in EndpointCommandPayloads :
      IF command_payload["token"] # VerificationToken
      THEN finish_endpoint("command", command_payload, refused("nope"))
      ELSE
        \E result \in
             (IF run_command(commands, command_payload, None).called # <<>>
              THEN EndpointResults ELSE {None}) :
          finish_endpoint("command", command_payload,
              command_endpoint(run_command(commands, command_payload, result)))

NextEndpoint ==
    \/ register_action
    \/ register_command
    \/ Bot_act
    \/ Bot_command

SpecEndpoint == Init /\ [][NextEndpoint]_vars

\* the outcome of one call of Bot.process_message
finish_bot_message(body, out) ==
    /\ op' = "Bot.process_message"
    /\ payload' = body
    /\ called' = out.called
    /\ sent' = out.sent
    /\ raised' = out.raised
    /\ returned' = None
    /\ trace' = out.trace
    /\ UNCHANGED <<tables, threads, jobs>>

\* Bot.process_message(msg)
Bot_process_message ==
    \E body \in BotBodies :
      IF is_self_authored(body)
      THEN finish_bot_message(body, [trace |-> <<>>] @@ Nothing)
      ELSE IF ~is_text_message(body)
      THEN finish_bot_message(body, guard_message(body, Nothing, TRUE))
      ELSE
        \E pm \in {parse_mention(bot_id, alt_names, body["text"])} :
          \E result \in
               (IF route(listeners, body, pm, None, TRUE).called # <<>>
                THEN BotResults ELSE {None}) :
            \E ok \in
                 (IF route(listeners, body, pm, result, TRUE).sent # <<>>
                  THEN BOOLEAN ELSE {TRUE}) :
              \E out \in {route(listeners, body, pm, result, ok)} :
                \E ok2 \in (IF out.raised # "none" THEN BOOLEAN ELSE {TRUE}) :
                  finish_bot_message(body, guard_message(body, out, ok2))

NextBot == register_listener \/ Bot_process_message

SpecBot == Init /\ [][NextBot]_vars

(***************************************************************************)
(* Properties of message dispatch                                          *)
(***************************************************************************)
Min(S) == CHOOSE x \in S : \A y \in S : x <= y

\* the last operation dispatched a text message
TextDispatched ==
    /\ op = "process_message"
    /\ "type" \in DOMAIN payload /\ payload["type"] = "message"
    /\ "text" \in DOMAIN payload

Parsed == parse_mention(bot_id, alt_names, payload["text"])

Mentioned == Parsed.mentioned

Direct == payload["channel_type"] = "app_home"

\* the listeners whose pattern matches the mention-stripped text
Matching == {i \in 1..Len(listeners) : match(listeners[i], Parsed.text).matched}

\* the matching listeners that the mention-only rule does not skip
Eligible == {i \in Matching :
                ~listeners[i].mention_only \/ Mentioned \/ Direct}

\* C1: process_message calls at most one listener handler, and the one it
\* calls belongs to the earliest-registered listener that is not skipped by
\* the mention-only rule and whose pattern matches the stripped text.
C1_FirstMatchWins ==
    TextDispatched =>
        /\ Len(called) <= 1
        /\ Eligible = {} => called = <<>>
        /\ Eligible # {} =>
              /\ Len(called) = 1
              /\ called[1].f = listeners[Min(Eligible)].f

\* two registered listeners both match and only the first one was called
C1_Witness ==
    /\ TextDispatched
    /\ Cardinality(Eligible) = 2
    /\ Len(called) = 1
    /\ called[1].f = listeners[1].f
    /\ listeners[1].f # listeners[2].f

\* C2: for a payload that is not a text message process_message calls no
\* listener handler and makes no call of the reply or react capability.
C2_NonTextSilent ==
    (op = "process_message" /\ ~TextDispatched) =>
        called = <<>> /\ sent = <<>>

\* a payload of another type carried a text that a registered listener
\* matches, in the app home, and nothing happened
C2_Witness ==
    /\ op = "process_message"
    /\ "type" \in DOMAIN payload /\ payload["type"] # "message"
    /\ "text" \in DOMAIN payload
    /\ Direct
    /\ Matching # {}
    /\ called = <<>> /\ sent = <<>>

\* C3: a mention-only listener never fires for a message that is neither
\* mentioned nor direct; when the message is mentioned or direct the
\* mention-only flag does not keep a listener from firing.
C3_MentionOnly ==
    TextDispatched =>
        /\ (~Mentioned /\ ~Direct) =>
              \A i \in 1..Len(listeners) :
                 listeners[i].mention_only =>
                    \A c \in 1..Len(called) : called[c].f # listeners[i].f
        /\ ((Mentioned \/ Direct) /\ Matching # {}) =>
              /\ called # <<>>
              /\ called[1].f = listeners[Min(Matching)].f

\* an unaddressed message in a regular channel matched the pattern of a
\* mention-only listener, which did not fire
C3_Witness ==
    /\ TextDispatched
    /\ ~Mentioned /\ payload["channel_type"] = "channel"
    /\ \E i \in Matching : listeners[i].mention_only
    /\ \A i \in Matching : listeners[i].mention_only
    /\ called = <<>>

\* C4: when no listener fires on a text message, a mentioned or direct
\* message gets exactly one reply, which carries the fallback text, and a
\* message that is neither gets no reply.
C4_Fallback ==
    (TextDispatched /\ called = <<>>) =>
        IF Mentioned \/ Direct
        THEN /\ Len(sent) = 1
             /\ sent[1].method = "chat.postMessage"
             /\ sent[1].args["text"] = FallbackText
        ELSE sent = <<>>

\* a direct message without a mention that no listener took was answered
\* with the fallback text
C4_Witness ==
    /\ TextDispatched /\ called = <<>>
    /\ Direct /\ ~Mentioned
    /\ Len(listeners) > 0
    /\ Len(sent) = 1 /\ sent[1].args["text"] = FallbackText

\* C5: when the fired handler returns a string the dispatch makes exactly
\* one reply call, whose text is that string; when it returns None the
\* dispatch makes no reply call.
C5_StringOrNone ==
    (TextDispatched /\ called # <<>>) =>
        /\ called[1].result.type = "str" =>
              /\ Len(sent) = 1
              /\ sent[1].method = "chat.postMessage"
              /\ sent[1].args["text"] = called[1].result.value
        /\ called[1].result.type = "NoneType" => sent = <<>>

\* a handler returned "ok" and one reply with the text "ok" went out
C5_Witness ==
    /\ TextDispatched /\ Len(called) = 1
    /\ called[1].result = [type |-> "str", value |-> "ok"]
    /\ Len(sent) = 1 /\ sent[1].args["text"] = "ok"

\* the fired handler returned a map that Python can bind to Message.reply
MapReturned ==
    /\ TextDispatched /\ called # <<>>
    /\ called[1].result.type = "dict"
    /\ "text" \in DOMAIN called[1].result.value
    /\ "self" \notin DOMAIN called[1].result.value

\* the keys of the outbound message that Message.reply sets from the source
\* event, whatever the map holds
SourceKeys ==
    {"channel"} \cup (IF "thread_ts" \in DOMAIN payload THEN {"thread_ts"}
                                                        ELSE {})

\* C6 as stated: every key of the returned map reaches the outbound send
\* with the value the handler gave it.
C6_AllKeysForwarded ==
    MapReturned =>
        /\ Len(sent) = 1
        /\ \A k \in DOMAIN called[1].result.value :
              /\ k \in DOMAIN sent[1].args
              /\ sent[1].args[k] = called[1].result.value[k]

\* C6: every key of the returned map other than channel, and other than
\* thread_ts when the source event has one, reaches the one outbound send
\* with the value the handler gave it; channel is the source channel and
\* thread_ts of a threaded source event is the source's.
C6_KeysForwardedExceptSource ==
    MapReturned =>
        /\ Len(sent) = 1
        /\ sent[1].method = "chat.postMessage"
        /\ \A k \in DOMAIN called[1].result.value \ SourceKeys :
              /\ k \in DOMAIN sent[1].args
              /\ sent[1].args[k] = called[1].result.value[k]
        /\ sent[1].args["channel"] = payload["channel"]
        /\ "thread_ts" \in DOMAIN payload =>
              sent[1].args["thread_ts"] = payload["thread_ts"]

\* a handler returned a map with its own channel and thread_ts for a
\* threaded message: the reply went to the source channel and thread, with
\* the map's text
C6_Witness ==
    /\ MapReturned
    /\ "channel" \in DOMAIN called[1].result.value
    /\ called[1].result.value["channel"] # payload["channel"]
    /\ "thread_ts" \in DOMAIN payload
    /\ Len(sent) = 1
    /\ sent[1].args["channel"] = payload["channel"]
    /\ sent[1].args["text"] = called[1].result.value["text"]

\* C7: when the fired handler returns a value that is neither None, a
\* string nor a map, Listener.process raises the bad-result error and
\* sends no reply.
C7_OtherResultRaises ==
    (TextDispatched /\ called # <<>>
       /\ called[1].result.type \notin {"NoneType", "str", "dict", "raise"}) =>
        raised = "Bad listener result" /\ sent = <<>>

(***************************************************************************)
(* Properties of command and action dispatch                               *)
(***************************************************************************)
\* C8: register_command of a name that is already registered raises the
\* duplicate error and leaves the command table as it was; of a new name it
\* binds the name to the handler and to nothing else.
C8_DuplicateCommand ==
    [][op' = "register_command" =>
          IF payload'.name \in DOMAIN commands
          THEN raised' = "Duplicate command" /\ commands' = commands
          ELSE /\ raised' = "none"
               /\ DOMAIN commands' = DOMAIN commands \cup {payload'.name}
               /\ commands'[payload'.name].f = payload'.f
               /\ \A n \in DOMAIN commands : commands'[n] = commands[n]]_vars

\* a second registration of a name with another handler was refused and the
\* name is still bound to the first handler
C8_Witness ==
    /\ op = "register_command"
    /\ raised = "Duplicate command"
    /\ payload.name \in DOMAIN commands
    /\ commands[payload.name].f # payload.f

\* the registered actions whose pattern matches the payload's callback_id
MatchingActions ==
    {i \in 1..Len(actions) :
        re_match(actions[i].regex, payload["callback_id"], FALSE).matched}

\* C9: process_action calls exactly one handler, that of the
\* earliest-registered action whose pattern matches callback_id, and
\* returns its result; when no pattern matches it raises the unknown-action
\* error and calls no handler.
C9_ActionFirstMatch ==
    op = "process_action" =>
        IF MatchingActions = {}
        THEN raised = "unknown action" /\ called = <<>>
        ELSE /\ Len(called) = 1
             /\ called[1].f = actions[Min(MatchingActions)].f
             /\ called[1].args[1] = payload
             /\ IF called[1].result.type = "raise"
                THEN raised = "handler error"
                ELSE raised = "none" /\ returned = called[1].result

\* two registered actions match the callback_id; the first was called and
\* its result returned
C9_Witness ==
    /\ op = "process_action"
    /\ Cardinality(MatchingActions) = 2
    /\ Len(called) = 1 /\ called[1].f = actions[1].f
    /\ actions[1].f # actions[2].f
    /\ returned = [type |-> "str", value |-> "done"]

\* C10: process_command calls exactly the handler registered under the
\* payload's command name and returns its result; when the name is not
\* registered it raises the unknown-command error and calls no handler.
C10_CommandExactName ==
    op = "process_command" =>
        IF payload["command"] \in DOMAIN commands
        THEN /\ Len(called) = 1
             /\ called[1].f = commands[payload["command"]].f
             /\ called[1].args = <<payload>>
             /\ IF called[1].result.type = "raise"
                THEN raised = "handler error"
                ELSE raised = "none" /\ returned = called[1].result
        ELSE raised = "Command not found" /\ called = <<>>

\* the command "/ab" was dispatched while "/a" and "/ab" are registered
\* with different handlers: the handler of "/ab" ran and its result came back
C10_Witness ==
    /\ op = "process_command"
    /\ payload["command"] = <<"/", "a", "b">>
    /\ {<<"/", "a">>, <<"/", "a", "b">>} \subseteq DOMAIN commands
    /\ commands[<<"/", "a">>].f # commands[<<"/", "a", "b">>].f
    /\ Len(called) = 1
    /\ called[1].f = commands[<<"/", "a", "b">>].f
    /\ returned = [type |-> "str", value |-> "done"]

(***************************************************************************)
(* Properties of Bot.process_message                                       *)
(***************************************************************************)
\* the last operation handed an event to Bot.process_message that is not
\* self-authored
BotDispatched == op = "Bot.process_message" /\ "bot_id" \notin DOMAIN payload

\* the error the dispatcher ran into, "none" if it did not: a handler that
\* raised, a result that Listener.process cannot reply with, or a reply of
\* the dispatcher that the api refused
DispatchError ==
    IF called # <<>> /\ called[1].result.type = "raise" THEN "handler error"
    ELSE IF called # <<>> /\ called[1].result.type = "int"
            /\ called[1].result.value # 0 THEN "Bad listener result"
    ELSE IF called # <<>> /\ called[1].result.type = "dict"
            /\ "text" \notin DOMAIN called[1].result.value THEN "TypeError"
    ELSE IF sent # <<>> /\ ~sent[1].ok THEN py_str(NotFound)
    ELSE "none"

\* the positions of trace at which the cleanup hook ran
Cleanups == {i \in 1..Len(trace) : trace[i] = "cleanup"}

\* C11: every error of the dispatcher is caught in Bot.process_message,
\* which calls the cleanup hook exactly once and after it, as its last
\* step, sends one reply into the channel of the message whose text holds
\* the string form of the error.
C11_ErrorCleanupThenReply ==
    (BotDispatched /\ DispatchError # "none") =>
        /\ Cardinality(Cleanups) = 1
        /\ Len(trace) >= 2
        /\ trace[Len(trace) - 1] = "cleanup"
        /\ trace[Len(trace)] = "send"
        /\ Cardinality({i \in 1..Len(trace) : trace[i] = "send"}) = Len(sent)
        /\ sent[Len(sent)].method = "chat.postMessage"
        /\ sent[Len(sent)].args["channel"] = payload["channel"]
        /\ sent[Len(sent)].args["text"][2] = DispatchError

\* the api refused the reply to a handler's string; the cleanup hook ran and
\* a second send carried the refusal back into the channel
C11_Witness ==
    /\ BotDispatched
    /\ called # <<>> /\ called[1].result.type = "str"
    /\ trace = <<"call", "send", "cleanup", "send">>
    /\ Len(sent) = 2 /\ ~sent[1].ok
    /\ sent[2].args["text"] = ErrorText(py_str(NotFound))
    /\ sent[2].args["channel"] = payload["channel"]

\* C13: every message Message.reply sends goes to the channel of the source
\* event and carries the thread_ts of the source event when it has one; when
\* it has none, a thread_ts is in the message only if the handler's map put
\* it there.
C13_ReplyAddressing ==
    op = "Bot.process_message" =>
        \A i \in 1..Len(sent) :
            /\ sent[i].method = "chat.postMessage"
            /\ sent[i].args["channel"] = payload["channel"]
            /\ "thread_ts" \in DOMAIN payload =>
                  /\ "thread_ts" \in DOMAIN sent[i].args
                  /\ sent[i].args["thread_ts"] = payload["thread_ts"]
            /\ ("thread_ts" \notin DOMAIN payload
                  /\ "thread_ts" \in DOMAIN sent[i].args) =>
                  /\ i = 1 /\ called # <<>>
                  /\ called[1].result.type = "dict"
                  /\ "thread_ts" \in DOMAIN called[1].result.value
                  /\ sent[i].args["thread_ts"]
                        = called[1].result.value["thread_ts"]

\* a handler raised on a message of a thread and the error reply went into
\* that thread of that channel
C13_Witness ==
    /\ BotDispatched
    /\ "thread_ts" \in DOMAIN payload
    /\ called # <<>> /\ called[1].result.type = "raise"
    /\ Len(sent) = 1
    /\ sent[1].args["text"] = ErrorText("handler error")
    /\ sent[1].args["channel"] = payload["channel"]
    /\ sent[1].args["thread_ts"] = payload["thread_ts"]

\* C16: an event that carries a bot_id key is dropped by Bot.process_message:
\* no handler runs, nothing is sent and the cleanup hook is not called.
C16_SelfAuthoredDropped ==
    (op = "Bot.process_message" /\ "bot_id" \in DOMAIN payload) =>
        /\ called = <<>>
        /\ sent = <<>>
        /\ trace = <<>>
        /\ raised = "none"

\* a self-authored text message from the app home that a registered
\* listener without the mention-only flag matches was dropped
C16_Witness ==
    /\ op = "Bot.process_message" /\ "bot_id" \in DOMAIN payload
    /\ payload["type"] = "message" /\ "text" \in DOMAIN payload
    /\ payload["channel_type"] = "app_home"
    /\ \E i \in 1..Len(listeners) :
          /\ ~listeners[i].mention_only
          /\ match(listeners[i], payload["text"]).matched
    /\ called = <<>> /\ sent = <<>> /\ trace = <<>>

(***************************************************************************)
(* Properties of the endpoints of Bot.run                                  *)
(***************************************************************************)
\* the last operation was a request with the right token to the endpoint
Requested(name) == op = name /\ payload["token"] = VerificationToken

\* the error Dispatcher.process_action ran into on the request, "none" if it
\* did not
ActionError ==
    IF \A i \in 1..Len(actions) :
          ~re_match(actions[i].regex, payload["callback_id"], FALSE).matched
    THEN "unknown action"
    ELSE IF called # <<>> /\ called[1].result.type = "raise"
    THEN "handler error"
    ELSE "none"

\* the error Dispatcher.process_command ran into on the request, "none" if
\* it did not
CommandError ==
    IF payload["command"] \notin DOMAIN commands THEN "Command not found"
    ELSE IF called # <<>> /\ called[1].result.type = "raise"
    THEN "handler error"
    ELSE "none"

\* C12 as stated: on the action path and on the command path every error of
\* the dispatcher triggers the cleanup hook and then leaves the endpoint as
\* an error, with no response.
C12_ErrorsPropagate ==
    /\ (Requested("act") /\ ActionError # "none") =>
          /\ Cardinality(Cleanups) = 1
          /\ raised = ActionError /\ returned = None
    /\ (Requested("command") /\ CommandError # "none") =>
          /\ Cardinality(Cleanups) = 1
          /\ raised = CommandError /\ returned = None

\* C12: every error of Dispatcher.process_action triggers the cleanup hook,
\* as the last step, and then leaves the act endpoint as that error, with
\* no response; every error of Dispatcher.process_command triggers the
\* cleanup hook, as the last step, and the command endpoint then returns
\* normally a text that holds the string form of the error.
C12_ActionRaisesCommandAnswers ==
    /\ (Requested("act") /\ ActionError # "none") =>
          /\ Cardinality(Cleanups) = 1
          /\ trace[Len(trace)] = "cleanup"
          /\ raised = ActionError /\ returned = None
    /\ (Requested("command") /\ CommandError # "none") =>
          /\ Cardinality(Cleanups) = 1
          /\ trace[Len(trace)] = "cleanup"
          /\ raised = "none"
          /\ returned.type = "str"
          /\ returned.value = ErrorText(CommandError)

\* a command handler raised: the cleanup hook ran after it and the endpoint
\* answered with the error text
C12_Witness ==
    /\ Requested("command")
    /\ called # <<>> /\ called[1].result.type = "raise"
    /\ trace = <<"call", "cleanup">>
    /\ raised = "none"
    /\ returned = [type |-> "str", value |-> ErrorText("handler error")]

(***************************************************************************)
(* Properties of Message.reply and Message.react                           *)
(***************************************************************************)
\* the last operation was a call of the method name of Message
Delivered(name) == op = name /\ Len(called) = 1

\* C14: Message.reply and Message.react return normally when sc.api_call
\* answers ok and raise when it answers non-ok; the error of reply is the
\* string form of the whole response, the error of react is the error
\* string of the response.
C14_DeliveryError ==
    /\ Delivered("Message.reply") =>
          LET response == called[1].result IN
            /\ response.ok => raised = "none"
            /\ ~response.ok =>
                  /\ raised # "none"
                  /\ raised = py_str(response)
    /\ Delivered("Message.react") =>
          LET response == called[1].result IN
            /\ response.ok => raised = "none"
            /\ ~response.ok =>
                  /\ raised # "none"
                  /\ raised = response.error

\* a reply was refused as rate limited and raised the whole response
C14_Witness ==
    /\ Delivered("Message.reply")
    /\ ~called[1].result.ok /\ called[1].result.error = "ratelimited"
    /\ Len(sent) = 1 /\ sent[1].method = "chat.postMessage"
    /\ raised = "{'ok': False, 'error': 'ratelimited'}"

(***************************************************************************)
(* Properties of Dispatcher.parse_mention                                  *)
(***************************************************************************)
\* the last operation was a call of parse_mention on the text in payload
MentionParsed == op = "Dispatcher.parse_mention"

\* the explicit mention token of this bot
MentionToken == <<"<", "@">> \o bot_id \o <<">">>

\* the text that is left after the first n characters and the whitespace
\* that follows them
Residual(text, n) == SubSeq(text, SkipSpaces(text, n + 1), Len(text))

\* the alternate names that, compared without case and followed by a comma,
\* start the text
AliasesAhead(text) ==
    {i \in 1..Len(alt_names) : StartsWith(text, alt_names[i] \o <<",">>, TRUE)}

\* C15: parse_mention returns (mentioned, the text left after the prefix)
\* when the text starts with the mention token of this bot (with an
\* optional comma and whitespace), or, failing that, with an alternate name
\* compared without case and followed by a comma and whitespace; in every
\* other case it returns (not mentioned, the text unchanged).
C15_ParseMention ==
    MentionParsed =>
        LET text == payload
            n == Len(MentionToken)
        IN  IF StartsWith(text, MentionToken, FALSE)
            THEN /\ returned.mentioned
                 /\ returned.text =
                       Residual(text, IF n < Len(text) /\ text[n + 1] = ","
                                      THEN n + 1 ELSE n)
            ELSE IF AliasesAhead(text) # {}
            THEN /\ returned.mentioned
                 /\ \E i \in AliasesAhead(text) :
                       returned.text = Residual(text, Len(alt_names[i]) + 1)
            ELSE /\ ~returned.mentioned
                 /\ returned.text = text

(***************************************************************************)
(* Frame of the dispatch operations                                        *)
(***************************************************************************)
Dispatches == {"process_message", "process_action", "process_command"}

\* the handlers a dispatch called, in order
Selected(calls) == [i \in 1..Len(calls) |-> calls[i].f]

\* C17: process_message, process_action and process_command, returning or
\* raising, leave listeners, actions, commands, bot_id and alt_names as they
\* were, and a dispatch of the payload that was dispatched just before
\* selects the same handler again.
C17_DispatchStateless ==
    [][(op' \in Dispatches) =>
          /\ tables' = tables
          /\ (op = op' /\ payload = payload') =>
                Selected(called') = Selected(called)]_vars

\* an action handler was selected and raised, with rules in two tables
C17_Witness ==
    /\ op = "process_action"
    /\ called # <<>> /\ raised # "none"
    /\ Len(actions) = 1 /\ Len(listeners) = 1

(***************************************************************************)
(* Messages dispatched on several threads at once                          *)
(***************************************************************************)
\* what Bot.process_message does with the message of thread t when it is
\* the only one dispatched, the handler doing what it did on thread t
Alone(t) ==
    LET body == threads[t].body IN
      IF ~is_text_message(body) THEN guard_message(body, Nothing, TRUE)
      ELSE guard_message(body,
               route(listeners, body,
                     parse_mention(bot_id, alt_names, body["text"]),
                     threads[t].result, TRUE),
               TRUE)

\* C18: under every interleaving of the steps of the threads, a message
\* whose dispatch has finished got the listener and the replies, in the
\* order, it gets when it is dispatched alone.
C18_ThreadsIndependent ==
    \A t \in DOMAIN threads :
        threads[t].pc = "done" =>
            /\ Selected(threads[t].called) = Selected(Alone(t).called)
            /\ threads[t].called = Alone(t).called
            /\ threads[t].sent = Alone(t).sent
            /\ threads[t].trace = Alone(t).trace

\* two threads have finished: one message without a mention was passed over
\* by the mention-only listener and answered by the second one, the other
\* was mentioned and answered by the first
C18_Witness ==
    /\ Len(threads) >= 2
    /\ threads[1].pc = "done" /\ threads[2].pc = "done"
    /\ ~threads[1].mentioned /\ ~threads[1].direct
    /\ threads[2].mentioned
    /\ Selected(threads[1].called) = <<2>>
    /\ Selected(threads[2].called) = <<1>>
    /\ Len(threads[1].sent) = 1 /\ Len(threads[2].sent) = 1

(***************************************************************************)
(* Scheduled jobs                                                          *)
(***************************************************************************)
\* the scheduler has just run a job
JobRan == op = "job" /\ Len(called) = 1

\* C19: when the function of a scheduled job raises, the wrapper calls the
\* cleanup hook once, after the function, and raises the same error to the
\* scheduler, sending nothing; when the function returns, the cleanup hook
\* is not called and nothing is raised.
C19_JobCleanupOnError ==
    JobRan =>
        IF called[1].result.type = "raise"
        THEN /\ Cardinality(Cleanups) = 1
             /\ trace = <<"call", "cleanup">>
             /\ raised = called[1].result.value
             /\ sent = <<>>
        ELSE /\ Cleanups = {}
             /\ raised = "none"

\* the function of the second job returned: no cleanup, nothing raised
C19_Witness ==
    /\ JobRan
    /\ Len(jobs) >= 2 /\ called[1].f = 2
    /\ called[1].result.type = "str"
    /\ trace = <<"call">>
    /\ raised = "none"

(***************************************************************************)
(* The match contract of action rules                                      *)
(***************************************************************************)
\* the callback_id of the payload of the last operation
CallbackId == payload["callback_id"]

\* the actions whose pattern starts the callback_id when letters are
\* compared without case, as Listener.match compares them
ActionsAheadAnyCase ==
    {i \in 1..Len(actions) :
        /\ Len(CallbackId) >= Len(actions[i].regex.lit)
        /\ \A k \in 1..Len(actions[i].regex.lit) :
              Lower(CallbackId[k]) = Lower(actions[i].regex.lit[k])}

\* the actions whose pattern starts the callback_id letter for letter
ActionsAhead ==
    {i \in 1..Len(actions) :
        /\ Len(CallbackId) >= Len(actions[i].regex.lit)
        /\ SubSeq(CallbackId, 1, Len(actions[i].regex.lit))
              = actions[i].regex.lit}

\* what the group of action i captures: the callback_id after the pattern
Captured(i) ==
    IF actions[i].regex.cap
    THEN <<SubSeq(CallbackId, Len(actions[i].regex.lit) + 1,
                  Len(CallbackId))>>
    ELSE <<>>

\* C20 as stated: an action is matched as a listener is, without regard to
\* letter case, at the start of callback_id, trailing text allowed, and its
\* handler gets the payload and then the captured groups.
C20_ActionMatchAnyCase ==
    op = "process_action" =>
        IF ActionsAheadAnyCase = {}
        THEN raised = "unknown action" /\ called = <<>>
        ELSE /\ Len(called) = 1
             /\ called[1].f = actions[Min(ActionsAheadAnyCase)].f
             /\ called[1].args
                   = <<payload>> \o Captured(Min(ActionsAheadAnyCase))

\* C20: an action is matched at the start of callback_id, trailing text
\* allowed, with letter case significant, and its handler gets the payload
\* and then the captured groups; a callback_id that no pattern starts letter
\* for letter is an unknown action, also when it differs from a pattern in
\* letter case only.
C20_ActionMatchExactCase ==
    op = "process_action" =>
        IF ActionsAhead = {}
        THEN raised = "unknown action" /\ called = <<>>
        ELSE /\ Len(called) = 1
             /\ called[1].f = actions[Min(ActionsAhead)].f
             /\ called[1].args = <<payload>> \o Captured(Min(ActionsAhead))

\* "Ok" was dispatched with "ok" and the group pattern after "o" registered:
\* both differ from the start of "Ok" in letter case only and neither was
\* called
C20_Witness ==
    /\ op = "process_action"
    /\ CallbackId = <<"O", "k">>
    /\ Len(actions) = 2
    /\ actions[1].regex = [lit |-> <<"o", "k">>, cap |-> FALSE]
    /\ actions[2].regex = [lit |-> <<"o">>, cap |-> TRUE]
    /\ called = <<>>
    /\ raised = "unknown action"

====
